---- MODULE Spec2Model ----
(***************************************************************************)
(* Model of the KU student-data pipeline (src/src/load_and_transform.py):  *)
(* validate_data_quality, print_detailed_issue_records,                    *)
(* clean_data_quality_issues, apply_database_constraints, the report views *)
(* (view_sql, final_select) and the control flow of run().                 *)
(*                                                                         *)
(* A table is a bag of rows (a function row -> number of copies): SQL      *)
(* tables are multisets and no statement of the pipeline depends on the    *)
(* physical row order except through tie-breaks, which are modelled as     *)
(* nondeterministic choices.  A column value is either Null (<<>>) or a    *)
(* one-element tuple <<v>>, so that SQL's three-valued comparisons can be  *)
(* written out: a comparison with Null is never true.                      *)
(***************************************************************************)
EXTENDS Integers, Sequences, FiniteSets, Bags, TLC

VARIABLES
    student,      \* bag of [EMPLID, LAST_NAME]
    acad_prog,    \* bag of [EMPLID, ACAD_PROG, EFFDT]
    departments,  \* bag of [DEPT_CODE, DEPT_NAME, CONTACT_PERSON]
    enrollments,  \* bag of [EMPLID, STRM, DEPARTMENT, CREDIT_HOURS,
                  \*         COURSE_ID, CLASS_NBR]
    enrCols,      \* which of COURSE_ID, CLASS_NBR the enrollments table has
    acadCols,     \* whether acad_prog has the EFFDT column
    rnCols,       \* the tables that carry the extra column rn
    newTables,    \* the intermediate tables (x_new) that exist
    constrained,  \* the tables rebuilt under their key constraints
    pc,           \* position of run()
    is_valid,     \* result of the last validate_data_quality
    issues,       \* issue keys of the last validate_data_quality
    success,      \* result of apply_database_constraints
    report,       \* rows written to output.csv (<<>> until written)
    raw,          \* the tables as loaded
    estmt,        \* the statement apply_database_constraints is at
    dropped,      \* the tables of EnforceOrder that do not exist
    newRows       \* the rows of the intermediate table being filled

vars == <<student, acad_prog, departments, enrollments, enrCols, acadCols,
          rnCols, newTables, constrained, pc, is_valid, issues, success,
          report, raw, estmt, dropped, newRows>>

-----------------------------------------------------------------------------
(* SQL values *)

Null == <<>>

V(x) == <<x>>

IsNull(v) == v = Null

\* SQL "a = b" used as a join or filter condition: true only for two
\* non-null equal values.
SqlEq(a, b) == ~IsNull(a) /\ ~IsNull(b) /\ a = b

\* The binary collation of the VARCHAR values of the model, ascending.
StrOrder == <<"", " ", "2244", "2248", "CS101", "CS102", "Dr. James Wilson",
              "MATH", "PHYS", "Physics", "UGRD", "XXXX">>

StrRank(s) == CHOOSE i \in 1..Len(StrOrder) : StrOrder[i] = s

\* TRIM(LAST_NAME): the only string of the model with surrounding blanks is
\* the single blank.
Trim(s) == IF s = " " THEN "" ELSE s

-----------------------------------------------------------------------------
(* Bags of rows *)

Rows(B) == BagToSet(B)

\* SELECT * FROM B WHERE ...: the rows S of B, with their copies.
Restrict(B, S) == [r \in S |-> B[r]]

\* Sum of the values of a function with a finite domain (SQL SUM / COUNT).
RECURSIVE SumFn(_)
SumFn(f) ==
    IF DOMAIN f = {} THEN 0
    ELSE LET x == CHOOSE y \in DOMAIN f : TRUE
         IN f[x] + SumFn([y \in DOMAIN f \ {x} |-> f[y]])

\* SELECT COUNT(*) FROM B
NumRows(B) == SumFn(B)

\* All bags with at most n rows drawn from the candidate rows C.
BagsUpTo(C, n) ==
    {b \in UNION {[S -> 1..n] : S \in {X \in SUBSET C : Cardinality(X) <= n}} :
        NumRows(b) <= n}

-----------------------------------------------------------------------------
(* The four tables as one value *)

Tables == [student |-> student, acad_prog |-> acad_prog,
           departments |-> departments, enrollments |-> enrollments,
           enrCols |-> enrCols, acadCols |-> acadCols, rnCols |-> rnCols]

\* pk_columns of enrollments: EMPLID, STRM, then COURSE_ID and CLASS_NBR
\* when the table has them.
PkColumns(cols) ==
    <<"EMPLID", "STRM">>
      \o (IF "COURSE_ID" \in cols THEN <<"COURSE_ID">> ELSE <<>>)
      \o (IF "CLASS_NBR" \in cols THEN <<"CLASS_NBR">> ELSE <<>>)

\* The values of a row in the given columns (a GROUP BY / PARTITION BY key;
\* Null is a key value like any other, as in SQL grouping).
KeyOf(r, colseq) == [i \in 1..Len(colseq) |-> r[colseq[i]]]

\* GROUP BY key HAVING COUNT(*) > 1: the keys that occur more than once.
DupKeys(B, colseq) ==
    {k \in {KeyOf(r, colseq) : r \in Rows(B)} :
        SumFn([r \in Rows(B) |-> IF KeyOf(r, colseq) = k THEN B[r] ELSE 0]) > 1}

-----------------------------------------------------------------------------
(* validate_data_quality *)

\* DESCRIBE acad_prog: the columns of acad_prog, in order (rn is last once a
\* duplicate repair has added it; it is 1 in every row).
AcadColumns(T) ==
    <<"EMPLID", "ACAD_PROG">>
      \o (IF "EFFDT" \in T.acadCols THEN <<"EFFDT">> ELSE <<>>)

\* LEFT JOIN student s ON x.EMPLID = s.EMPLID WHERE s.EMPLID IS NULL
NoStudent(T, r) == ~\E s \in Rows(T.student) : SqlEq(r.EMPLID, s.EMPLID)

\* LEFT JOIN departments d ON e.DEPARTMENT = d.DEPT_CODE WHERE d.DEPT_CODE IS NULL
NoDepartment(T, r) ==
    ~\E d \in Rows(T.departments) : SqlEq(r.DEPARTMENT, d.DEPT_CODE)

\* LEFT JOIN enrollments e ON s.EMPLID = e.EMPLID WHERE e.EMPLID IS NULL
NoEnrollment(T, s) ==
    ~\E e \in Rows(T.enrollments) : SqlEq(s.EMPLID, e.EMPLID)

\* (A credit check that forgets the negative values.)
InvalidCredit_UpperOnly(r) ==
    ~IsNull(r.CREDIT_HOURS) /\ r.CREDIT_HOURS[1] > 30

\* CREDIT_HOURS < 0 OR CREDIT_HOURS > 30
InvalidCredit(r) ==
    ~IsNull(r.CREDIT_HOURS) /\ (r.CREDIT_HOURS[1] < 0 \/ r.CREDIT_HOURS[1] > 30)

\* TRIM(LAST_NAME) = '' OR LAST_NAME IS NULL
EmptyName(s) == IsNull(s.LAST_NAME) \/ Trim(s.LAST_NAME[1]) = ""

\* (A list of required fields that forgets the enrollment term.)
NullChecks_NoStrm ==
    << <<"student", "EMPLID", "null_student_emplid">>,
       <<"student", "LAST_NAME", "null_student_last_name">>,
       <<"enrollments", "EMPLID", "null_enrollments_emplid">>,
       <<"enrollments", "CREDIT_HOURS", "null_enrollments_credit_hours">>,
       <<"departments", "DEPT_CODE", "null_departments_dept_code">> >>

\* null_checks: (table, column, issue key)
NullChecks ==
    << <<"student", "EMPLID", "null_student_emplid">>,
       <<"student", "LAST_NAME", "null_student_last_name">>,
       <<"enrollments", "EMPLID", "null_enrollments_emplid">>,
       <<"enrollments", "STRM", "null_enrollments_strm">>,
       <<"enrollments", "CREDIT_HOURS", "null_enrollments_credit_hours">>,
       <<"departments", "DEPT_CODE", "null_departments_dept_code">> >>

\* The keys of the issues dictionary built by checks 1..11.
IssueKeys(T) ==
          (IF DupKeys(T.student, <<"EMPLID">>) # {}
           THEN {"duplicate_students"} ELSE {})
     \cup (IF DupKeys(T.acad_prog, AcadColumns(T)) # {}
           THEN {"duplicate_acad_prog"} ELSE {})
     \cup (IF DupKeys(T.departments, <<"DEPT_CODE">>) # {}
           THEN {"duplicate_departments"} ELSE {})
     \cup (IF DupKeys(T.enrollments, PkColumns(T.enrCols)) # {}
           THEN {"duplicate_enrollments"} ELSE {})
     \cup (IF \E r \in Rows(T.acad_prog) : NoStudent(T, r)
           THEN {"orphaned_acad_prog"} ELSE {})
     \cup (IF \E r \in Rows(T.enrollments) : NoStudent(T, r)
           THEN {"orphaned_enrollments_student"} ELSE {})
     \cup (IF \E r \in Rows(T.enrollments) : NoDepartment(T, r)
           THEN {"orphaned_enrollments_dept"} ELSE {})
     \cup {NullChecks[i][3] : i \in
             {j \in 1..Len(NullChecks) :
                \E r \in Rows(T[NullChecks[j][1]]) : IsNull(r[NullChecks[j][2]])}}
     \cup (IF \E r \in Rows(T.enrollments) : InvalidCredit(r)
           THEN {"invalid_credit_hours"} ELSE {})
     \cup (IF \E s \in Rows(T.student) : EmptyName(s)
           THEN {"empty_student_names"} ELSE {})
     \cup (IF \E s \in Rows(T.student) : NoEnrollment(T, s)
           THEN {"students_no_enrollments"} ELSE {})

\* details.get('severity', 'error'): only check 11 sets a severity.
Severity(k) == IF k = "students_no_enrollments" THEN "warning" ELSE "error"

ErrorIssues(iss) == {k \in iss : Severity(k) = "error"}

\* The first component of validate_data_quality's result:
\* "if not issues: return True, issues ... else: return False, issues".
IsValid(iss) == iss = {}

-----------------------------------------------------------------------------
(* print_detailed_issue_records *)

\* The report interpolates each example EMPLID into "WHERE EMPLID = {emplid}".
\* For a NULL EMPLID the text is "WHERE EMPLID = None", which the engine
\* rejects, so the call raises.  The slices [:5] and [:3] keep every group of
\* the model, whose EMPLID domain has three values.
PrintRaises(T, iss) ==
    \/ "duplicate_students" \in iss
         /\ \E k \in DupKeys(T.student, <<"EMPLID">>) : IsNull(k[1])
    \/ "duplicate_acad_prog" \in iss
         /\ \E k \in DupKeys(T.acad_prog, AcadColumns(T)) : IsNull(k[1])
    \/ "orphaned_acad_prog" \in iss
         /\ \E r \in Rows(T.acad_prog) : NoStudent(T, r) /\ IsNull(r.EMPLID)
    \/ "orphaned_enrollments_student" \in iss
         /\ \E r \in Rows(T.enrollments) : NoStudent(T, r) /\ IsNull(r.EMPLID)

-----------------------------------------------------------------------------
(* clean_data_quality_issues *)

\* (A repair that forgets the filter rn = 1.)
KeepFirst_NoFilter(B, colseq) == {B}

\* (A repair that keeps only the rows whose key occurs once.)
KeepFirst_SinglesOnly(B, colseq) ==
    {Restrict(B, {r \in Rows(B) : KeyOf(r, colseq) \notin DupKeys(B, colseq)})}

\* SELECT * FROM (SELECT *, ROW_NUMBER() OVER (PARTITION BY key ORDER BY k1)
\* AS rn FROM B) WHERE rn = 1.  All rows of a partition tie in the ORDER BY,
\* so any row of the partition may get rn = 1: the possible results.
KeepFirst(B, colseq) ==
    LET K == {KeyOf(r, colseq) : r \in Rows(B)}
        picks == {f \in [K -> Rows(B)] : \A k \in K : KeyOf(f[k], colseq) = k}
    IN {SetToBag({f[k] : k \in K}) : f \in picks}

\* SELECT x.* FROM B x INNER JOIN R s ON x.col = s.rcol: every row of B is
\* repeated once per matching row of R.
InnerJoin(B, col, R, rcol) ==
    LET m(r) == SumFn([s \in Rows(R) |->
                         IF SqlEq(r[col], s[rcol]) THEN R[s] ELSE 0])
    IN [r \in {x \in Rows(B) : m(x) > 0} |-> B[r] * m(r)]

\* (A clamp that forgets the upper limit.)
ClampCredit_NoUpper(c) ==
    IF IsNull(c) THEN c
    ELSE IF c[1] < 0 THEN V(0)
    ELSE c

\* (A clamp that turns a missing value into 0.)
ClampCredit_NullToZero(c) ==
    IF IsNull(c) THEN V(0)
    ELSE IF c[1] < 0 THEN V(0)
    ELSE IF c[1] > 30 THEN V(30)
    ELSE c

\* CASE WHEN CREDIT_HOURS < 0 THEN 0 WHEN CREDIT_HOURS > 30 THEN 30
\* ELSE CREDIT_HOURS END
ClampCredit(c) ==
    IF IsNull(c) THEN c
    ELSE IF c[1] < 0 THEN V(0)
    ELSE IF c[1] > 30 THEN V(30)
    ELSE c

\* (A repair that deletes the rows with an invalid value.)
ClampAll_Dropping(B) == Restrict(B, {r \in Rows(B) : ~InvalidCredit(r)})

\* SELECT EMPLID, STRM, DEPARTMENT, CASE ... END AS CREDIT_HOURS, * EXCLUDE
\* (...) FROM B: every row with its credit hours clamped (rows that become
\* equal add up).
ClampAll(B) ==
    LET clamp(r) == [r EXCEPT !.CREDIT_HOURS = ClampCredit(r.CREDIT_HOURS)]
    IN [y \in {clamp(r) : r \in Rows(B)} |->
          SumFn([r \in Rows(B) |-> IF clamp(r) = y THEN B[r] ELSE 0])]

\* (An order that removes the orphans before the duplicates.)
CleanOrder_OrphansFirst ==
    <<"orphaned_acad_prog", "orphaned_enrollments_student",
      "orphaned_enrollments_dept", "duplicate_students", "duplicate_acad_prog",
      "duplicate_departments", "duplicate_enrollments",
      "null_required", "invalid_credit_hours", "empty_student_names">>

\* The repairs in the order of the function body.
CleanOrder ==
    <<"duplicate_students", "duplicate_acad_prog", "duplicate_departments",
      "duplicate_enrollments", "orphaned_acad_prog",
      "orphaned_enrollments_student", "orphaned_enrollments_dept",
      "null_required", "invalid_credit_hours", "empty_student_names">>

\* Step 8: for every null_* issue, SELECT * FROM table WHERE column IS NOT NULL.
DropNulls(T, iss) ==
    LET keep(tbl) ==
          Restrict(T[tbl],
            {r \in Rows(T[tbl]) :
               \A i \in 1..Len(NullChecks) :
                  (NullChecks[i][1] = tbl /\ NullChecks[i][3] \in iss)
                     => ~IsNull(r[NullChecks[i][2]])})
    IN [T EXCEPT !.student = keep("student"),
                 !.enrollments = keep("enrollments"),
                 !.departments = keep("departments")]

\* "if '<issue>' in issues": a repair runs only when its issue was reported
\* (step 8 looks up the null_* issues itself).
Applies_Always(step, iss) == TRUE

Applies(step, iss) == step = "null_required" \/ step \in iss

\* One repair: the set of tables it may produce.
Repair(step, T, iss) ==
    IF ~Applies(step, iss) THEN {T}
       ELSE
       CASE step = "null_required" -> {DropNulls(T, iss)}
         [] step = "duplicate_students" ->
              {[T EXCEPT !.student = b, !.rnCols = @ \cup {"student"}] :
                  b \in KeepFirst(T.student, <<"EMPLID">>)}
         [] step = "duplicate_acad_prog" ->
              {[T EXCEPT !.acad_prog = b, !.rnCols = @ \cup {"acad_prog"}] :
                  b \in KeepFirst(T.acad_prog, AcadColumns(T))}
         [] step = "duplicate_departments" ->
              {[T EXCEPT !.departments = b, !.rnCols = @ \cup {"departments"}] :
                  b \in KeepFirst(T.departments, <<"DEPT_CODE">>)}
         [] step = "duplicate_enrollments" ->
              {[T EXCEPT !.enrollments = b, !.rnCols = @ \cup {"enrollments"}] :
                  b \in KeepFirst(T.enrollments, PkColumns(T.enrCols))}
         [] step = "orphaned_acad_prog" ->
              {[T EXCEPT !.acad_prog =
                  InnerJoin(T.acad_prog, "EMPLID", T.student, "EMPLID")]}
         [] step = "orphaned_enrollments_student" ->
              {[T EXCEPT !.enrollments =
                  InnerJoin(T.enrollments, "EMPLID", T.student, "EMPLID")]}
         [] step = "orphaned_enrollments_dept" ->
              {[T EXCEPT !.enrollments =
                  InnerJoin(T.enrollments, "DEPARTMENT", T.departments, "DEPT_CODE")]}
         [] step = "invalid_credit_hours" ->
              {[T EXCEPT !.enrollments = ClampAll(T.enrollments)]}
         [] step = "empty_student_names" ->
              {[T EXCEPT !.student =
                  Restrict(T.student, {r \in Rows(T.student) : ~EmptyName(r)})]}

\* The repairs of order[i..] applied in sequence: the possible results.
RECURSIVE RepairFrom(_, _, _, _)
RepairFrom(order, i, T, iss) ==
    IF i > Len(order) THEN {T}
    ELSE UNION {RepairFrom(order, i + 1, U, iss) : U \in Repair(order[i], T, iss)}

\* clean_data_quality_issues(con, issues): the possible resulting tables.
Clean(T, iss) == RepairFrom(CleanOrder, 1, T, iss)

\* The five kinds of repair, each with its steps in the order of the function
\* body: duplicates, orphans, null required fields, credit clamp, empty
\* names.
RepairKinds ==
    <<SubSeq(CleanOrder, 1, 4), SubSeq(CleanOrder, 5, 7),
      SubSeq(CleanOrder, 8, 8), SubSeq(CleanOrder, 9, 9),
      SubSeq(CleanOrder, 10, 10)>>

-----------------------------------------------------------------------------
(* apply_database_constraints *)

\* The tables in the order they are rebuilt.
EnforceOrder == <<"student", "departments", "acad_prog", "enrollments">>

NewName(tbl) ==
    CASE tbl = "student" -> "student_new"
      [] tbl = "departments" -> "departments_new"
      [] tbl = "acad_prog" -> "acad_prog_new"
      [] tbl = "enrollments" -> "enrollments_new"

\* PRIMARY KEY (...) of each rebuilt table.
PrimaryKey(T, tbl) ==
    CASE tbl = "student" -> <<"EMPLID">>
      [] tbl = "departments" -> <<"DEPT_CODE">>
      [] tbl = "acad_prog" -> AcadColumns(T)
      [] tbl = "enrollments" -> PkColumns(T.enrCols)

\* FOREIGN KEY (col) REFERENCES table(col) of each rebuilt table.
ForeignKeys(tbl) ==
    CASE tbl = "acad_prog" -> {<<"EMPLID", "student", "EMPLID">>}
      [] tbl = "enrollments" -> {<<"EMPLID", "student", "EMPLID">>,
                                 <<"DEPARTMENT", "departments", "DEPT_CODE">>}
      [] OTHER -> {}

\* INSERT INTO x_new SELECT * FROM x succeeds: the key columns are not null,
\* no key occurs twice, and every non-null foreign key value is referenced.
InsertOk(T, tbl) ==
    LET pk == PrimaryKey(T, tbl)
    IN /\ \A r \in Rows(T[tbl]) : \A i \in 1..Len(pk) : ~IsNull(r[pk[i]])
       /\ DupKeys(T[tbl], pk) = {}
       /\ \A fk \in ForeignKeys(tbl) : \A r \in Rows(T[tbl]) :
             IsNull(r[fk[1]])
               \/ \E q \in Rows(T[fk[2]]) : SqlEq(r[fk[1]], q[fk[3]])

\* The rebuild of EnforceOrder[i..]: CREATE TABLE x_new fails when x_new
\* exists; a failed INSERT leaves the empty x_new behind; DROP and RENAME
\* complete the replacement.  The first failure ends the function (except:
\* return False).
RECURSIVE EnforceFrom(_, _, _, _)
EnforceFrom(i, T, news, cons) ==
    IF i > Len(EnforceOrder)
    THEN [success |-> TRUE, newTables |-> news, constrained |-> cons]
    ELSE LET tbl == EnforceOrder[i]
         IN IF NewName(tbl) \in news
            THEN [success |-> FALSE, newTables |-> news, constrained |-> cons]
            ELSE IF ~InsertOk(T, tbl)
            THEN [success |-> FALSE, newTables |-> news \cup {NewName(tbl)},
                  constrained |-> cons]
            ELSE EnforceFrom(i + 1, T, news, cons \cup {tbl})

ApplyConstraints(T, news, cons) == EnforceFrom(1, T, news, cons)

\* The position after the last statement of apply_database_constraints.
Returning(e) == e.stmt = "return"

\* One con.execute of apply_database_constraints, from the state s = [T,
\* estmt, newTables, constrained, dropped, newRows]: the statement s.estmt
\* of table EnforceOrder[s.estmt.i].  Each statement is committed on its
\* own (the function opens no transaction).  raised tells that the statement
\* was rejected, which leaves the state as it was.
ExecStatement(s) ==
    LET e == s.estmt
        tbl == EnforceOrder[e.i]
        at(st) == [e EXCEPT !.stmt = st]
        r == [s EXCEPT !.raised = FALSE]
    IN CASE e.stmt = "create" ->
              \* CREATE TABLE x_new (..., PRIMARY KEY ..., FOREIGN KEY ...)
              IF NewName(tbl) \in s.newTables
              THEN [r EXCEPT !.raised = TRUE]
              ELSE [r EXCEPT !.newTables = @ \cup {NewName(tbl)},
                             !.newRows = EmptyBag,
                             !.estmt = at("insert")]
         [] e.stmt = "insert" ->
              \* INSERT INTO x_new SELECT * FROM x
              IF ~InsertOk(s.T, tbl)
              THEN [r EXCEPT !.raised = TRUE]
              ELSE [r EXCEPT !.newRows = s.T[tbl], !.estmt = at("drop")]
         [] e.stmt = "drop" ->
              \* DROP TABLE x
              [r EXCEPT !.T = [@ EXCEPT ![tbl] = EmptyBag],
                        !.dropped = @ \cup {tbl},
                        !.estmt = at("rename")]
         [] e.stmt = "rename" ->
              \* ALTER TABLE x_new RENAME TO x
              [r EXCEPT !.T = [@ EXCEPT ![tbl] = s.newRows],
                        !.dropped = @ \ {tbl},
                        !.newTables = @ \ {NewName(tbl)},
                        !.newRows = EmptyBag,
                        !.constrained = @ \cup {tbl},
                        !.estmt = IF e.i < Len(EnforceOrder)
                                  THEN [i |-> e.i + 1, stmt |-> "create"]
                                  ELSE at("return")]

-----------------------------------------------------------------------------
(* view_sql and final_select *)

\* (A sum that counts the rows instead of adding their credit hours.)
SumCredits_Count(B, G) ==
    LET sel == {r \in G : ~IsNull(r.CREDIT_HOURS)}
    IN IF sel = {} THEN Null ELSE V(SumFn([r \in sel |-> B[r]]))

\* SUM(CAST(CREDIT_HOURS AS INTEGER)) over the rows G of B (one group):
\* nulls are skipped, and the sum of no value is null.
SumCredits(B, G) ==
    LET sel == {r \in G : ~IsNull(r.CREDIT_HOURS)}
    IN IF sel = {} THEN Null
       ELSE V(SumFn([r \in sel |-> B[r] * r.CREDIT_HOURS[1]]))

\* View total_credits: GROUP BY EMPLID, STRM.
TotalCredits(T) ==
    {[student_id |-> k[1], term |-> k[2],
      total_credits |->
         SumCredits(T.enrollments,
            {r \in Rows(T.enrollments) : r.EMPLID = k[1] /\ r.STRM = k[2]})] :
       k \in {<<r.EMPLID, r.STRM>> : r \in Rows(T.enrollments)}}

\* View credits_by_dept: GROUP BY EMPLID, STRM, DEPARTMENT.
CreditsByDept(T) ==
    {[student_id |-> k[1], term |-> k[2], dept_code |-> k[3],
      dept_credits |->
         SumCredits(T.enrollments,
            {r \in Rows(T.enrollments) :
               r.EMPLID = k[1] /\ r.STRM = k[2] /\ r.DEPARTMENT = k[3]})] :
       k \in {<<r.EMPLID, r.STRM, r.DEPARTMENT>> : r \in Rows(T.enrollments)}}

\* (A display name without the fallback to the department code.)
DisplayName_NameOnly(dept_name, dept_code) == dept_name

\* COALESCE(d.DEPT_NAME, c.dept_code)
DisplayName(dept_name, dept_code) ==
    IF IsNull(dept_name) THEN dept_code ELSE dept_name

\* View ranked_depts before numbering: credits_by_dept LEFT JOIN departments.
\* (Copies of one department row give equal joined rows; the report reads
\* only the row numbered 1, so the set of joined rows is enough.)
DeptJoin(T) ==
    UNION {
      LET ms == {d \in Rows(T.departments) : SqlEq(c.dept_code, d.DEPT_CODE)}
      IN IF ms = {}
         THEN {[student_id |-> c.student_id, term |-> c.term,
                dept_code |-> c.dept_code, dept_credits |-> c.dept_credits,
                dept_name |-> DisplayName(Null, c.dept_code),
                dept_contact |-> Null]}
         ELSE {[student_id |-> c.student_id, term |-> c.term,
                dept_code |-> c.dept_code, dept_credits |-> c.dept_credits,
                dept_name |-> DisplayName(d.DEPT_NAME, c.dept_code),
                dept_contact |-> d.CONTACT_PERSON] : d \in ms}
      : c \in CreditsByDept(T)}

\* ORDER BY x ASC on strings, nulls last: a sorts strictly before b.
StrBefore(a, b) ==
    IF IsNull(a) THEN FALSE
    ELSE IF IsNull(b) THEN TRUE
    ELSE StrRank(a[1]) < StrRank(b[1])

\* ORDER BY x ASC on integers, nulls last.
IntBefore(a, b) ==
    IF IsNull(a) THEN FALSE
    ELSE IF IsNull(b) THEN TRUE
    ELSE a[1] < b[1]

\* (A ranking that forgets the tie-break on the display name.)
RankBefore_CreditsOnly(x, y) ==
    \/ ~IsNull(x.dept_credits) /\ ~IsNull(y.dept_credits)
         /\ x.dept_credits[1] > y.dept_credits[1]
    \/ ~IsNull(x.dept_credits) /\ IsNull(y.dept_credits)

\* ORDER BY c.dept_credits DESC, COALESCE(d.DEPT_NAME, c.dept_code) ASC:
\* x is ordered strictly before y.
RankBefore(x, y) ==
    \/ ~IsNull(x.dept_credits) /\ ~IsNull(y.dept_credits)
         /\ x.dept_credits[1] > y.dept_credits[1]
    \/ ~IsNull(x.dept_credits) /\ IsNull(y.dept_credits)
    \/ x.dept_credits = y.dept_credits /\ StrBefore(x.dept_name, y.dept_name)

\* The rows that ROW_NUMBER() may number 1 in the partition of (sid, term):
\* those no other row of the partition is ordered before.
RankOne(T, sid, term) ==
    LET part == {x \in DeptJoin(T) : x.student_id = sid /\ x.term = term}
    IN {x \in part : ~\E y \in part : RankBefore(y, x)}

\* final_select before ORDER BY, for one choice rk of the rows numbered 1
\* (rk maps each total_credits row to its rank-1 row): total_credits LEFT JOIN
\* ranked_depts (rn = 1) LEFT JOIN student, as a bag of report rows.
Joined(T, rk) ==
    LET out(t, nm, n) ==
          LET hit == ~IsNull(t.student_id) /\ ~IsNull(t.term)
          IN [row |-> [student_id |-> t.student_id, last_name |-> nm,
                       term |-> t.term, total_credits |-> t.total_credits,
                       focused_department_name |->
                          IF hit THEN rk[t].dept_name ELSE Null,
                       focused_department_contact |->
                          IF hit THEN rk[t].dept_contact ELSE Null],
              n |-> n]
        one(t) ==
          LET ms == {s \in Rows(T.student) : SqlEq(t.student_id, s.EMPLID)}
          IN IF ms = {} THEN {out(t, Null, 1)}
             ELSE {out(t, nm,
                       SumFn([s \in ms |->
                                IF s.LAST_NAME = nm THEN T.student[s] ELSE 0])) :
                     nm \in {s.LAST_NAME : s \in ms}}
        all == UNION {one(t) : t \in TotalCredits(T)}
    IN [r \in {x.row : x \in all} |-> (CHOOSE x \in all : x.row = r).n]

\* (An ORDER BY that forgets the term.)
ReportBefore_StudentOnly(x, y) == IntBefore(x.student_id, y.student_id)

\* ORDER BY t.student_id, t.term: x is ordered strictly before y.
ReportBefore(x, y) ==
    \/ IntBefore(x.student_id, y.student_id)
    \/ x.student_id = y.student_id /\ StrBefore(x.term, y.term)

\* The sequences that list the rows of bag B in the ORDER BY order (rows
\* that tie may come in any order).
RECURSIVE OrderBy(_)
OrderBy(B) ==
    IF Rows(B) = {} THEN {<<>>}
    ELSE LET first == {x \in Rows(B) : ~\E y \in Rows(B) : ReportBefore(y, x)}
             rest(x) == [r \in {z \in Rows(B) : z # x \/ B[z] > 1} |->
                           IF r = x THEN B[r] - 1 ELSE B[r]]
         IN UNION {{<<x>> \o q : q \in OrderBy(rest(x))} : x \in first}

\* The possible results of final_select on the tables.
FinalSelect(T) ==
    LET tc == TotalCredits(T)
        rks == {rk \in [tc -> DeptJoin(T)] :
                  \A t \in tc : rk[t] \in RankOne(T, t.student_id, t.term)}
    IN UNION {OrderBy(Joined(T, rk)) : rk \in rks}

-----------------------------------------------------------------------------
(* The tables the Raw Table Provider may load *)

MaxRows == 2

MaxEnr == 3

StudentRow(e, n) == [EMPLID |-> e, LAST_NAME |-> n]

AcadRow(e, p, d) == [EMPLID |-> e, ACAD_PROG |-> p, EFFDT |-> d]

DeptRow(c, n, p) == [DEPT_CODE |-> c, DEPT_NAME |-> n, CONTACT_PERSON |-> p]

EnrRow(e, t, d, h, c, n) ==
    [EMPLID |-> e, STRM |-> t, DEPARTMENT |-> d, CREDIT_HOURS |-> h,
     COURSE_ID |-> c, CLASS_NBR |-> n]

Anderson == StudentRow(V(1), V("Anderson"))

Physics == DeptRow(V("PHYS"), V("Physics"), V("Dr. James Wilson"))

Math == DeptRow(V("MATH"), Null, Null)

StudentRows ==
    {Anderson, StudentRow(V(1), V("")), StudentRow(V(2), V("Anderson")),
     StudentRow(V(2), Null), StudentRow(V(2), V(" ")),
     StudentRow(Null, V("Anderson"))}

DeptRows ==
    {Physics, Math, DeptRow(V("MATH"), V("Physics"), Null),
     DeptRow(Null, Null, Null)}

AcadRows ==
    {AcadRow(V(1), V("UGRD"), V("2244")), AcadRow(V(1), V("UGRD"), V("2248")),
     AcadRow(V(1), V("UGRD"), Null), AcadRow(V(2), V("UGRD"), V("2244")),
     AcadRow(Null, V("UGRD"), V("2244"))}

\* Enrollment rows of a table without COURSE_ID and CLASS_NBR.
PlainEnrRows ==
    {EnrRow(V(1), V("2244"), V("PHYS"), V(13), Null, Null),
     EnrRow(V(1), V("2244"), V("MATH"), V(13), Null, Null),
     EnrRow(V(1), V("2248"), V("PHYS"), V(31), Null, Null),
     EnrRow(V(2), V("2248"), V("MATH"), V(0 - 1), Null, Null),
     EnrRow(V(2), V("2244"), V("XXXX"), V(6), Null, Null),
     EnrRow(Null, V("2244"), V("PHYS"), V(13), Null, Null),
     EnrRow(V(1), Null, V("PHYS"), V(13), Null, Null),
     EnrRow(V(1), V("2244"), Null, V(13), Null, Null),
     EnrRow(V(1), V("2244"), V("PHYS"), Null, Null, Null)}

\* Enrollment rows of a table with COURSE_ID.
CourseEnrRows ==
    {EnrRow(V(1), V("2244"), V("PHYS"), V(13), V("CS101"), Null),
     EnrRow(V(1), V("2244"), V("MATH"), V(13), V("CS102"), Null),
     EnrRow(V(1), V("2244"), V("MATH"), V(6), V("CS102"), Null),
     EnrRow(V(1), V("2244"), V("PHYS"), V(6), V("CS103"), Null),
     EnrRow(V(1), V("2248"), V("MATH"), V(6), V("CS101"), Null),
     EnrRow(V(2), V("2244"), V("PHYS"), V(13), V("CS101"), Null),
     EnrRow(V(2), V("2244"), V("MATH"), V(6), V("CS102"), Null),
     EnrRow(V(1), V("2244"), V("PHYS"), V(13), Null, Null)}

\* Enrollment rows of a table with COURSE_ID and CLASS_NBR.
ClassEnrRows ==
    {EnrRow(V(1), V("2244"), V("PHYS"), V(13), V("CS101"), V("2244")),
     EnrRow(V(1), V("2244"), V("MATH"), V(13), V("CS101"), V("2248")),
     EnrRow(V(1), V("2244"), V("MATH"), V(6), V("CS101"), V("2248"))}

\* Loads that vary the students and the enrollments.
InitEnrollments ==
    /\ student \in BagsUpTo(StudentRows, MaxRows)
    /\ enrollments \in BagsUpTo(PlainEnrRows, MaxRows)
    /\ departments \in {SetToBag({Physics, Math}), SetToBag({Physics}),
                         SetToBag({Physics}) (+) SetToBag({Physics, Math})}
    /\ acad_prog = EmptyBag
    /\ enrCols = {}
    /\ acadCols = {"EFFDT"}

\* Loads that vary the departments.
InitDepartments ==
    /\ student = SetToBag({Anderson})
    /\ departments \in BagsUpTo(DeptRows, MaxRows)
    /\ enrollments \in BagsUpTo(
            {EnrRow(V(1), V("2244"), V("PHYS"), V(13), Null, Null),
             EnrRow(V(1), V("2248"), V("MATH"), V(6), Null, Null)}, MaxRows)
    /\ acad_prog = EmptyBag
    /\ enrCols = {}
    /\ acadCols = {"EFFDT"}

\* Loads that vary the students and the academic programs.
InitAcadProg ==
    /\ student \in BagsUpTo(StudentRows, MaxRows)
    /\ \/ acadCols = {"EFFDT"} /\ acad_prog \in BagsUpTo(AcadRows, MaxRows)
       \/ acadCols = {}
            /\ acad_prog \in BagsUpTo({r \in AcadRows : IsNull(r.EFFDT)}, MaxRows)
    /\ departments = SetToBag({Physics, Math})
    /\ enrollments = SetToBag({EnrRow(V(1), V("2244"), V("PHYS"), V(13), Null, Null)})
    /\ enrCols = {}

\* Loads with several enrollments per student and term.
InitCourses ==
    /\ student \in {SetToBag({Anderson}),
                     SetToBag({Anderson, StudentRow(V(2), V("Anderson"))})}
    /\ departments \in {SetToBag({Physics, Math}),
                         SetToBag({Physics, DeptRow(V("MATH"), V("Physics"), Null)})}
    /\ \/ enrCols = {"COURSE_ID"}
            /\ enrollments \in BagsUpTo(CourseEnrRows, MaxEnr)
       \/ enrCols = {"COURSE_ID", "CLASS_NBR"}
            /\ enrollments \in BagsUpTo(ClassEnrRows, MaxEnr)
    /\ acad_prog \in {EmptyBag, SetToBag({AcadRow(V(1), V("UGRD"), V("2244"))})}
    /\ acadCols = {"EFFDT"}

Init ==
    /\ InitEnrollments \/ InitDepartments \/ InitAcadProg \/ InitCourses
    /\ rnCols = {}
    /\ newTables = {}
    /\ constrained = {}
    /\ pc = "validate"
    /\ is_valid = FALSE
    /\ issues = {}
    /\ success = FALSE
    /\ report = <<>>
    /\ raw = Tables
    /\ estmt = [i |-> 1, stmt |-> "create"]
    /\ dropped = {}
    /\ newRows = EmptyBag

-----------------------------------------------------------------------------
(* run() *)

\* (A validation that deletes the students it finds without enrollments.)
Validate_Deleting ==
    /\ pc = "validate"
    /\ issues' = IssueKeys(Tables)
    /\ is_valid' = IsValid(issues')
    /\ pc' = IF is_valid' THEN "enforce" ELSE "print"
    /\ student' = Restrict(student,
                      {s \in Rows(student) : ~NoEnrollment(Tables, s)})
    /\ UNCHANGED <<acad_prog, departments, enrollments, enrCols,
                   acadCols, rnCols, newTables, constrained, success, report, raw,
                   estmt, dropped, newRows>>

\* is_valid, issues = validate_data_quality(con)
Validate ==
    /\ pc = "validate"
    /\ issues' = IssueKeys(Tables)
    /\ is_valid' = IsValid(issues')
    /\ pc' = IF is_valid' THEN "enforce" ELSE "print"
    /\ UNCHANGED <<student, acad_prog, departments, enrollments, enrCols,
                   acadCols, rnCols, newTables, constrained, success, report, raw,
                   estmt, dropped, newRows>>

\* print_detailed_issue_records(con, issues); an exception ends run() in its
\* "except Exception" handler.
PrintIssues ==
    /\ pc = "print"
    /\ pc' = IF PrintRaises(Tables, issues) THEN "failed" ELSE "clean"
    /\ UNCHANGED <<student, acad_prog, departments, enrollments, enrCols,
                   acadCols, rnCols, newTables, constrained, is_valid, issues,
                   success, report, raw,
                   estmt, dropped, newRows>>

\* clean_data_quality_issues(con, issues)
CleanIssues ==
    /\ pc = "clean"
    /\ \E U \in Clean(Tables, issues) :
          /\ student' = U.student
          /\ acad_prog' = U.acad_prog
          /\ departments' = U.departments
          /\ enrollments' = U.enrollments
          /\ rnCols' = U.rnCols
    /\ pc' = "revalidate"
    /\ UNCHANGED <<enrCols, acadCols, newTables, constrained, is_valid, issues,
                   success, report, raw,
                   estmt, dropped, newRows>>

\* (A second validation whose verdict is not acted upon.)
Revalidate_VerdictIgnored ==
    /\ pc = "revalidate"
    /\ issues' = IssueKeys(Tables)
    /\ is_valid' = IsValid(issues')
    /\ pc' = "enforce"
    /\ UNCHANGED <<student, acad_prog, departments, enrollments, enrCols,
                   acadCols, rnCols, newTables, constrained, success, report, raw,
                   estmt, dropped, newRows>>

\* (A run that cleans again when the second validation is not clean.)
Revalidate_Retrying ==
    /\ pc = "revalidate"
    /\ issues' = IssueKeys(Tables)
    /\ is_valid' = IsValid(issues')
    /\ pc' = IF is_valid' THEN "enforce" ELSE "print"
    /\ UNCHANGED <<student, acad_prog, departments, enrollments, enrCols,
                   acadCols, rnCols, newTables, constrained, success, report, raw,
                   estmt, dropped, newRows>>

\* is_valid, remaining_issues = validate_data_quality(con); "if not is_valid:
\* ... return".
Revalidate ==
    /\ pc = "revalidate"
    /\ issues' = IssueKeys(Tables)
    /\ is_valid' = IsValid(issues')
    /\ pc' = IF is_valid' THEN "enforce" ELSE "aborted"
    /\ UNCHANGED <<student, acad_prog, departments, enrollments, enrCols,
                   acadCols, rnCols, newTables, constrained, success, report, raw,
                   estmt, dropped, newRows>>

\* (An enforcement whose failure escapes as an exception.)
Enforce_Raising ==
    /\ pc = "enforce"
    /\ LET res == ApplyConstraints(Tables, newTables, constrained)
       IN /\ success' = res.success
          /\ newTables' = res.newTables
          /\ constrained' = res.constrained
          /\ pc' = IF res.success THEN "aggregate" ELSE "failed"
    /\ UNCHANGED <<student, acad_prog, departments, enrollments, enrCols,
                   acadCols, rnCols, is_valid, issues, report, raw,
                   estmt, dropped, newRows>>

\* success = apply_database_constraints(con); a failure is only logged.
Enforce ==
    /\ pc = "enforce"
    /\ LET res == ApplyConstraints(Tables, newTables, constrained)
       IN /\ success' = res.success
          /\ newTables' = res.newTables
          /\ constrained' = res.constrained
    /\ pc' = "aggregate"
    /\ UNCHANGED <<student, acad_prog, departments, enrollments, enrCols,
                   acadCols, rnCols, is_valid, issues, report, raw,
                   estmt, dropped, newRows>>

\* con.execute(view_sql); COPY (final_select) TO output.csv
Aggregate ==
    /\ pc = "aggregate"
    /\ report' \in FinalSelect(Tables)
    /\ pc' = "done"
    /\ UNCHANGED <<student, acad_prog, departments, enrollments, enrCols,
                   acadCols, rnCols, newTables, constrained, is_valid, issues,
                   success, raw,
                   estmt, dropped, newRows>>

\* success = apply_database_constraints(con), one statement at a time: a
\* rejected statement ends the function with False, the last RENAME with
\* True.
EnforceStatement ==
    /\ pc = "enforce"
    /\ LET res == ExecStatement([T |-> Tables, estmt |-> estmt,
                                 newTables |-> newTables,
                                 constrained |-> constrained,
                                 dropped |-> dropped, newRows |-> newRows,
                                 raised |-> FALSE])
       IN /\ student' = res.T.student
          /\ acad_prog' = res.T.acad_prog
          /\ departments' = res.T.departments
          /\ enrollments' = res.T.enrollments
          /\ estmt' = res.estmt
          /\ newTables' = res.newTables
          /\ constrained' = res.constrained
          /\ dropped' = res.dropped
          /\ newRows' = res.newRows
          /\ success' = (~res.raised /\ Returning(res.estmt))
          /\ pc' = IF res.raised \/ Returning(res.estmt)
                   THEN "aggregate" ELSE "enforce"
    /\ UNCHANGED <<enrCols, acadCols, rnCols, is_valid, issues, report, raw>>

Next ==
    \/ Validate
    \/ PrintIssues
    \/ CleanIssues
    \/ Revalidate
    \/ Enforce
    \/ Aggregate

Spec == Init /\ [][Next]_vars

\* run() with apply_database_constraints taken statement by statement.
NextStatement ==
    \/ Validate
    \/ PrintIssues
    \/ CleanIssues
    \/ Revalidate
    \/ EnforceStatement
    \/ Aggregate

SpecStatement == Init /\ [][NextStatement]_vars

\* Input files in which every declared key holds.
KeyedFiles ==
    [student |-> SetToBag({Anderson}),
     acad_prog |-> SetToBag({AcadRow(V(1), V("UGRD"), V("2244"))}),
     departments |-> SetToBag({Physics, Math}),
     enrollments |->
        SetToBag({EnrRow(V(1), V("2244"), V("PHYS"), V(13), Null, Null)}),
     enrCols |-> {}, acadCols |-> {"EFFDT"}, rnCols |-> {}]

\* The input files of a later run: those of the run before, or KeyedFiles.
LaterFiles == {raw, KeyedFiles}

\* Table tbl is named in a FOREIGN KEY ... REFERENCES of a table in news.
Referenced(tbl, news) ==
    \E t \in {"acad_prog", "enrollments"} :
       /\ NewName(t) \in news
       /\ \E fk \in ForeignKeys(t) : fk[2] = tbl

\* A later run() on the same ku.duckdb, up to the end of the loads.  The
\* database file keeps what the run before left in it.  The run drops
\* enrollments, acad_prog, departments and student (no statement names an
\* x_new table) and loads the three files with CREATE OR REPLACE TABLE.
\* When a table left behind by a failed enforcement references student,
\* the engine either lets the statements through, or rejects those on a
\* referenced table: the first rejected DROP ends the block of DROPs, and
\* the rejected CREATE OR REPLACE TABLE student ends the run in its except
\* clause, acad_prog being loaded before it or not, by the order of the
\* tables in the sqlite file.
Rerun ==
    /\ pc \in {"done", "aborted", "failed"}
    /\ \E L \in LaterFiles :
          /\ raw' = L
          /\ \/ /\ student' = L.student
                /\ acad_prog' = L.acad_prog
                /\ departments' = L.departments
                /\ enrollments' = L.enrollments
                /\ enrCols' = L.enrCols
                /\ acadCols' = L.acadCols
                /\ rnCols' = {}
                /\ constrained' = {}
                /\ pc' = "validate"
             \/ /\ Referenced("student", newTables)
                /\ student' = student
                /\ enrollments' = EmptyBag
                /\ enrCols' = enrCols
                /\ \/ acad_prog' = EmptyBag /\ acadCols' = acadCols
                   \/ acad_prog' = L.acad_prog /\ acadCols' = L.acadCols
                /\ departments' = IF Referenced("departments", newTables)
                                  THEN departments ELSE EmptyBag
                /\ rnCols' = rnCols \cap
                      ({"student"} \cup
                         IF Referenced("departments", newTables)
                         THEN {"departments"} ELSE {})
                /\ constrained' = constrained \cap
                      ({"student"} \cup
                         IF Referenced("departments", newTables)
                         THEN {"departments"} ELSE {})
                /\ pc' = "failed"
    /\ is_valid' = FALSE
    /\ issues' = {}
    /\ success' = FALSE
    /\ estmt' = [i |-> 1, stmt |-> "create"]
    /\ dropped' = {}
    /\ newRows' = EmptyBag
    /\ UNCHANGED <<newTables, report>>

\* Runs one after the other on the same ku.duckdb.
NextWorkspace ==
    \/ Validate
    \/ PrintIssues
    \/ CleanIssues
    \/ Revalidate
    \/ Enforce
    \/ Aggregate
    \/ Rerun

SpecWorkspace == Init /\ [][NextWorkspace]_vars

\* The views and final_select as a function of the four tables: the tables
\* are any of the loads, not validated and not cleaned, and the only step
\* is the aggregation.
InitAggregation ==
    /\ InitEnrollments \/ InitDepartments \/ InitAcadProg \/ InitCourses
    /\ rnCols = {}
    /\ newTables = {}
    /\ constrained = {}
    /\ pc = "aggregate"
    /\ is_valid = FALSE
    /\ issues = {}
    /\ success = FALSE
    /\ report = <<>>
    /\ raw = Tables
    /\ estmt = [i |-> 1, stmt |-> "create"]
    /\ dropped = {}
    /\ newRows = EmptyBag

NextAggregation == Aggregate

SpecAggregation == InitAggregation /\ [][NextAggregation]_vars

-----------------------------------------------------------------------------
(* Properties *)

\* The tables hold no dangling reference: every enrollment has its student
\* and its department, every academic program has its student.
NoDangling(T) ==
    /\ \A e \in Rows(T.enrollments) :
          /\ \E s \in Rows(T.student) : SqlEq(e.EMPLID, s.EMPLID)
          /\ \E d \in Rows(T.departments) : SqlEq(e.DEPARTMENT, d.DEPT_CODE)
    /\ \A a \in Rows(T.acad_prog) :
          \E s \in Rows(T.student) : SqlEq(a.EMPLID, s.EMPLID)

\* The number of rows of bag B whose columns cs hold the values of row r.
SameKey(B, r, cs) ==
    SumFn([x \in Rows(B) |-> IF \A col \in cs : x[col] = r[col] THEN B[x] ELSE 0])

\* No natural key occurs in more than one row.
UniqueKeys(T) ==
    /\ \A r \in Rows(T.student) : SameKey(T.student, r, {"EMPLID"}) = 1
    /\ \A r \in Rows(T.departments) :
          SameKey(T.departments, r, {"DEPT_CODE"}) = 1
    /\ \A r \in Rows(T.enrollments) :
          SameKey(T.enrollments, r, {"EMPLID", "STRM"} \cup T.enrCols) = 1
    /\ \A r \in Rows(T.acad_prog) :
          SameKey(T.acad_prog, r, {"EMPLID", "ACAD_PROG"} \cup T.acadCols) = 1

\* C1: a run whose first validation finds nothing but the check-11 warning
\* (students with no enrollments) does not abort.
C1_WarningOnlyRunNotAborted ==
    IssueKeys(raw) = {"students_no_enrollments"} => pc # "aborted"

\* C2: the validator's verdict is "clean" exactly when its issue map holds
\* no issue of severity error.
C2_ValidIffNoErrorIssue ==
    pc # "validate" => (is_valid <=> ErrorIssues(issues) = {})

\* C3: right after the cleaning pass no table holds a dangling reference.
C3_NoDanglingAfterClean ==
    pc = "revalidate" => NoDangling(Tables)

\* C4: right after the cleaning pass no natural key of any of the four
\* tables occurs in more than one row.
C4_UniqueKeysAfterClean ==
    pc = "revalidate" => UniqueKeys(Tables)

\* A cleaning pass has run on tables that held duplicates in all of student,
\* departments and enrollments, or in acad_prog, and rows remain.
C4_Witness ==
    /\ pc = "revalidate"
    /\ \/ {"duplicate_students", "duplicate_enrollments"} \subseteq issues
       \/ {"duplicate_departments", "duplicate_acad_prog"} \cap issues # {}
    /\ \/ Rows(student) # {} /\ Rows(enrollments) # {}
       \/ Rows(departments) # {} /\ Rows(acad_prog) # {}

\* C5: right after the cleaning pass every enrollment row has credit hours
\* between 0 and 30.
C5_CreditDomainAfterClean ==
    pc = "revalidate" =>
       \A e \in Rows(enrollments) :
          /\ ~IsNull(e.CREDIT_HOURS)
          /\ 0 <= e.CREDIT_HOURS[1]
          /\ e.CREDIT_HOURS[1] <= 30

\* A cleaning pass has clamped both a negative and a too large credit value.
C5_Witness ==
    /\ pc = "revalidate"
    /\ \E e \in Rows(raw.enrollments) :
          ~IsNull(e.CREDIT_HOURS) /\ e.CREDIT_HOURS[1] < 0
    /\ \E e \in Rows(raw.enrollments) :
          ~IsNull(e.CREDIT_HOURS) /\ e.CREDIT_HOURS[1] > 30
    /\ NumRows(enrollments) = NumRows(raw.enrollments)

\* C6: on tables without error-severity issue the cleaner changes nothing
\* (rows and columns of all four tables), and the validation of its result
\* reports no error-severity issue.
C6_CleanOfCleanIsIdentity ==
    ErrorIssues(IssueKeys(raw)) = {} =>
       /\ \A U \in Clean(raw, IssueKeys(raw)) :
             U = raw /\ ErrorIssues(IssueKeys(U)) = {}
       /\ pc \in {"revalidate", "aborted"} =>
             Tables = raw /\ ErrorIssues(issues) = {}

\* The cleaner and the second validation have run on tables whose only
\* issue was the check-11 warning.
C6_Witness ==
    /\ pc = "aborted"
    /\ IssueKeys(raw) = {"students_no_enrollments"}
    /\ Rows(raw.enrollments) # {}

\* The enrollment rows of one student and term.
PairRows(sid, term) ==
    {e \in Rows(enrollments) : e.EMPLID = sid /\ e.STRM = term}

\* The credit hours of a set of enrollment rows, added up.
CreditSum(es) == SumFn([e \in es |-> enrollments[e] * e.CREDIT_HOURS[1]])

\* C7: the report has exactly one row per (emplid, strm) pair that has an
\* enrollment and no other row, each row's total_credits is the sum of the
\* pair's credit hours, and the sample dataset gives the sample row.
C7_ReportRowsAndTotals ==
    pc = "done" =>
       LET pairs == {<<e.EMPLID, e.STRM>> : e \in Rows(enrollments)}
       IN /\ Len(report) = Cardinality(pairs)
          /\ {<<report[i].student_id, report[i].term>> : i \in 1..Len(report)}
                = pairs
          /\ \A i \in 1..Len(report) :
                report[i].total_credits =
                   V(CreditSum(PairRows(report[i].student_id, report[i].term)))
          /\ ( /\ raw.student = SetToBag({Anderson})
               /\ raw.departments = SetToBag({Physics})
               /\ raw.enrollments = SetToBag(
                     {EnrRow(V(1), V("2244"), V("PHYS"), V(13), Null, Null)}) )
               => report = << [student_id |-> V(1), last_name |-> V("Anderson"),
                               term |-> V("2244"), total_credits |-> V(13),
                               focused_department_name |-> V("Physics"),
                               focused_department_contact |->
                                  V("Dr. James Wilson")] >>

\* A report has been written in which one student-term adds up several
\* enrollments and there are other student-terms.
C7_Witness ==
    /\ pc = "done"
    /\ Len(report) >= 2
    /\ \E i \in 1..Len(report) :
          /\ Cardinality(PairRows(report[i].student_id, report[i].term)) >= 2
          /\ report[i].total_credits = V(19)

\* The display name and the contact of department code d.
DeptOf(d) == CHOOSE x \in Rows(departments) : x.DEPT_CODE = d

DeptDisplay(d) ==
    IF IsNull(DeptOf(d).DEPT_NAME) THEN d ELSE DeptOf(d).DEPT_NAME

\* The departments of a student-term with the largest summed credit hours.
BestDepts(sid, term) ==
    LET es == PairRows(sid, term)
        cr(d) == CreditSum({e \in es : e.DEPARTMENT = d})
        ds == {e.DEPARTMENT : e \in es}
    IN {d \in ds : \A d2 \in ds : cr(d2) <= cr(d)}

\* C8: the focused department of every report row is a department with the
\* largest summed credit hours of the student-term, and among those one
\* whose display name sorts first.
C8_FocusedDepartment ==
    pc = "done" =>
       \A i \in 1..Len(report) :
          LET best == BestDepts(report[i].student_id, report[i].term)
              first == {d \in best : \A d2 \in best :
                          StrRank(DeptDisplay(d)[1]) <= StrRank(DeptDisplay(d2)[1])}
          IN \E d \in first :
                /\ report[i].focused_department_name = DeptDisplay(d)
                /\ report[i].focused_department_contact = DeptOf(d).CONTACT_PERSON

\* A report has been written for a student-term in which two departments
\* with different display names tie on the largest credit sum.
C8_Witness ==
    /\ pc = "done"
    /\ \E i \in 1..Len(report) :
          LET best == BestDepts(report[i].student_id, report[i].term)
          IN \E d1, d2 \in best : DeptDisplay(d1) # DeptDisplay(d2)

C10_ReportKeyFieldsNotNull ==
    pc = "done" =>
       \A i \in 1..Len(report) :
          /\ ~IsNull(report[i].student_id)
          /\ ~IsNull(report[i].last_name)
          /\ ~IsNull(report[i].term)
          /\ ~IsNull(report[i].total_credits)

\* A report with rows has been written after a failed constraint
\* enforcement.
C10_Witness ==
    /\ pc = "done"
    /\ ~success
    /\ Len(report) >= 1

\* C11: the total_credits of every report row is a non-negative integer.
C11_TotalCreditsNonNegative ==
    pc = "done" =>
       \A i \in 1..Len(report) :
          /\ ~IsNull(report[i].total_credits)
          /\ report[i].total_credits[1] \in Nat

\* A report has been written from enrollments that were loaded with a
\* negative credit value.
C11_Witness ==
    /\ pc = "done"
    /\ Len(report) >= 1
    /\ \E r \in Rows(raw.enrollments) :
          ~IsNull(r.CREDIT_HOURS) /\ r.CREDIT_HOURS[1] < 0

\* C12: when the validation that follows the cleaning pass still reports an
\* issue of severity error, the run goes to its abort exit and takes no
\* further step: no constraint enforcement has run (no table rebuilt, no
\* intermediate table created) and no report has been written.
C12_ErrorAfterCleanAborts ==
    /\ [][/\ (pc = "revalidate" /\ ErrorIssues(issues') # {}) => pc' = "aborted"
          /\ pc # "aborted"]_vars
    /\ [](pc = "aborted" =>
            /\ report = <<>>
            /\ constrained = {}
            /\ newTables = {}
            /\ ~success)

\* The run has aborted on an error issue that the cleaning pass left behind.
C12_Witness ==
    /\ pc = "aborted"
    /\ ErrorIssues(issues) # {}
    /\ Tables # raw

\* C13: the constraint enforcement always hands control back to run(), which
\* goes on to the aggregation, also when the enforcement failed (success =
\* FALSE): the aggregation can then always run, and its step writes the
\* report and ends the run.
C13_EnforceFailureNotFatal ==
    /\ [][/\ pc = "enforce" => pc' = "aggregate"
          /\ pc = "aggregate" => (pc' = "done" /\ report' \in FinalSelect(Tables))
       ]_vars
    /\ [](pc = "aggregate" => ENABLED Aggregate)

\* The report has been written although the enforcement failed and left an
\* intermediate table behind.
C13_Witness ==
    /\ pc = "done"
    /\ ~success
    /\ newTables # {}

\* C14: a step of validate_data_quality, first or second, leaves the rows and
\* the columns of student, acad_prog, departments and enrollments as they
\* were.
C14_ValidateLeavesTables ==
    [][(pc \in {"validate", "revalidate"}) =>
         (UNCHANGED <<student, acad_prog, departments, enrollments, enrCols,
                      acadCols, rnCols>>)]_vars

\* The validator has reported issues on populated tables, which are still
\* the tables as loaded.
C14_Witness ==
    /\ pc = "print"
    /\ issues # {}
    /\ NumRows(student) >= 1
    /\ NumRows(enrollments) >= 2
    /\ Tables = raw

\* The steps of run() from one stage to the next: the first validation, the
\* issue listing and the cleaning pass, the second validation, the
\* enforcement, the aggregation, and the exits.
StageSteps ==
    {<<"validate", "print">>, <<"validate", "enforce">>,
     <<"print", "clean">>, <<"print", "failed">>,
     <<"clean", "revalidate">>,
     <<"revalidate", "enforce">>, <<"revalidate", "aborted">>,
     <<"enforce", "aggregate">>, <<"aggregate", "done">>}

\* C15: the stages run in the order validate, clean, validate, enforce,
\* aggregate: every step follows StageSteps, in which the cleaning pass and
\* the validation after it occur once and nothing leads back to them, and
\* the enforcement is only reached with the verdict of the latest validation
\* clean on the tables as they are.
C15_StageOrder ==
    /\ [][(<<pc, pc'>> \in StageSteps)]_vars
    /\ [](pc = "enforce" => is_valid /\ IssueKeys(Tables) = {})

\* A run has gone through the cleaning pass, the second validation and the
\* enforcement, and has written its report.
C15_Witness ==
    /\ pc = "done"
    /\ Tables # raw
    /\ success

\* C16: whatever the four tables hold, the validation, the issue listing and
\* the cleaning pass do not raise: the run never ends in the exception
\* handler of run().
C16_NoFailureFromData == pc # "failed"

\* The departments that may be the focused department of a student-term:
\* those of BestDepts whose display name sorts first.
FocusCandidates(sid, term) ==
    LET best == BestDepts(sid, term)
    IN {d \in best : \A d2 \in best :
          StrRank(DeptDisplay(d)[1]) <= StrRank(DeptDisplay(d2)[1])}

\* C17: in every report row whose focused department has no contact person
\* (CONTACT_PERSON is null), focused_department_contact is the empty string,
\* not null.
C17_AbsentContactIsEmptyString ==
    pc = "done" =>
       \A i \in 1..Len(report) :
          (\A d \in FocusCandidates(report[i].student_id, report[i].term) :
              IsNull(DeptOf(d).CONTACT_PERSON))
            => report[i].focused_department_contact = V("")

\* C18: every statement of the constraint enforcement, and its return with
\* success or failure, leaves each of student, departments, acad_prog and
\* enrollments in existence under its name and with the rows it held.
C18_TablesKeptThroughEnforce ==
    [][(pc = "enforce") =>
          /\ dropped' = {}
          /\ student' = student
          /\ departments' = departments
          /\ acad_prog' = acad_prog
          /\ enrollments' = enrollments]_vars

\* C19: when the run has finished, each table has exactly the columns it was
\* loaded with: none carries the extra column rn, and the optional columns
\* of enrollments and acad_prog are those of the loaded tables.
C19_ColumnsAsLoaded ==
    pc = "done" =>
       /\ rnCols = raw.rnCols
       /\ enrCols = raw.enrCols
       /\ acadCols = raw.acadCols

\* The orders in which the kinds can be applied: the permutations of their
\* positions.
KindOrders ==
    {p \in [1..Len(RepairKinds) -> 1..Len(RepairKinds)] :
        \A i, j \in 1..Len(RepairKinds) : p[i] = p[j] => i = j}

\* The steps of the kinds taken in the order p.
RECURSIVE StepsFrom(_, _)
StepsFrom(p, i) ==
    IF i > Len(RepairKinds) THEN <<>>
    ELSE RepairKinds[p[i]] \o StepsFrom(p, i + 1)

\* The cleaning pass with its kinds of repair applied in the order p.
CleanInOrder(p, T, iss) == RepairFrom(StepsFrom(p, 1), 1, T, iss)

\* C20, for all orders: applied to the tables and the issues the cleaning
\* pass is called with, the five kinds of repair in any order give the same
\* possible tables as in the order of the function body.
C20_RepairsCommute ==
    pc = "clean" =>
       LET fixed == Clean(Tables, issues)
       IN \A p \in KindOrders : CleanInOrder(p, Tables, issues) = fixed

\* C20, for the orders of the last three kinds: the null-required-field
\* removal, the credit clamp and the empty-name removal commute with each
\* other: with the duplicate repairs first and the orphan repairs second,
\* these three in any order give the same possible tables as in the order of
\* the function body.
C20_LastThreeRepairsCommute ==
    pc = "clean" =>
       LET fixed == Clean(Tables, issues)
       IN \A p \in {q \in KindOrders : q[1] = 1 /\ q[2] = 2} :
             CleanInOrder(p, Tables, issues) = fixed

\* The cleaning pass is called with a null required field, an invalid credit
\* value and an empty student name to repair.
C20_Witness ==
    /\ pc = "clean"
    /\ "invalid_credit_hours" \in issues
    /\ "empty_student_names" \in issues
    /\ \E i \in 1..Len(NullChecks) : NullChecks[i][3] \in issues

\* The table a duplicate repair rebuilds and the columns of its key.
DupTable(step) ==
    CASE step = "duplicate_students" -> "student"
      [] step = "duplicate_acad_prog" -> "acad_prog"
      [] step = "duplicate_departments" -> "departments"
      [] step = "duplicate_enrollments" -> "enrollments"

DupColumns(step) ==
    CASE step = "duplicate_students" -> {"EMPLID"}
      [] step = "duplicate_acad_prog" -> {"EMPLID", "ACAD_PROG"} \cup acadCols
      [] step = "duplicate_departments" -> {"DEPT_CODE"}
      [] step = "duplicate_enrollments" -> {"EMPLID", "STRM"} \cup enrCols

\* C21: a duplicate repair that runs on the tables the cleaning pass is
\* called with leaves exactly one row of every key group of its table (so
\* no key value disappears), every row it leaves is a row the table had,
\* and a row that was alone in its key group stays, once.
C21_DuplicateRepairKeepsOnePerGroup ==
    pc = "clean" =>
       \A k \in 1..Len(RepairKinds[1]) :
          LET step == RepairKinds[1][k]
              before == Tables[DupTable(step)]
          IN step \in issues =>
                \A U \in Repair(step, Tables, issues) :
                   LET after == U[DupTable(step)]
                   IN /\ \A r \in Rows(before) :
                            SameKey(after, r, DupColumns(step)) = 1
                      /\ \A r \in Rows(after) : r \in Rows(before)
                      /\ \A r \in Rows(before) :
                            SameKey(before, r, DupColumns(step)) = 1
                               => (r \in Rows(after) /\ after[r] = 1)

\* The cleaning pass is called with enrollments in which two different rows
\* share a key and a third row is alone with its key.
C21_Witness ==
    /\ pc = "clean"
    /\ "duplicate_enrollments" \in issues
    /\ \E r1, r2, r3 \in Rows(enrollments) :
          /\ r1 # r2
          /\ SameKey(enrollments, r1, DupColumns("duplicate_enrollments")) = 2
          /\ SameKey(enrollments, r2, DupColumns("duplicate_enrollments")) = 2
          /\ SameKey(enrollments, r3, DupColumns("duplicate_enrollments")) = 1

\* The tables the credit repair may be applied to: those the repairs before
\* it leave.
ClampInputs == RepairFrom(SubSeq(CleanOrder, 1, 8), 1, Tables, issues)

\* The credit value a row is to have after the credit repair.
ClaimedCredit(c) ==
    CASE IsNull(c) -> c
      [] ~IsNull(c) /\ c[1] < 0 -> V(0)
      [] ~IsNull(c) /\ c[1] > 30 -> V(30)
      [] OTHER -> c

\* C22: the credit repair keeps the number of enrollment rows, and its result
\* is the table with every row's CREDIT_HOURS replaced by 0 when it was
\* negative, by 30 when it was above 30, and left alone otherwise; no other
\* column of a row changes.
C22_ClampKeepsRows ==
    (pc = "clean" /\ "invalid_credit_hours" \in issues) =>
       \A T \in ClampInputs :
          \A U \in Repair("invalid_credit_hours", T, issues) :
             LET before == T.enrollments
                 after == U.enrollments
                 claimed(r) ==
                    [r EXCEPT !.CREDIT_HOURS = ClaimedCredit(r.CREDIT_HOURS)]
             IN /\ NumRows(after) = NumRows(before)
                /\ Rows(after) = {claimed(r) : r \in Rows(before)}
                /\ \A a \in Rows(after) :
                      after[a] = SumFn([r \in {x \in Rows(before) : claimed(x) = a}
                                        |-> before[r]])
                /\ [U EXCEPT !.enrollments = before] = T

\* The credit repair is applied to enrollments with a negative value and a
\* value above 30.
C22_Witness ==
    /\ pc = "clean"
    /\ "invalid_credit_hours" \in issues
    /\ \E T \in ClampInputs :
          \E r1, r2 \in Rows(T.enrollments) :
             /\ r1.CREDIT_HOURS[1] < 0
             /\ r2.CREDIT_HOURS[1] > 30

\* The department rows an enrollment's department code d joins with.
DeptRowsOf(d) == {x \in Rows(departments) : SqlEq(d, x.DEPT_CODE)}

\* What the ranking is offered for department code d of a student-term:
\* the code, its summed credit hours, and either no department row (row is
\* Null) or one of the rows with that code.
Offers(sid, term) ==
    UNION {
      LET cr == SumCredits(enrollments,
                   {e \in PairRows(sid, term) : e.DEPARTMENT = d})
      IN IF DeptRowsOf(d) = {}
         THEN {[code |-> d, credits |-> cr, row |-> Null, shown |-> d]}
         ELSE {[code |-> d, credits |-> cr, row |-> V(x),
                shown |-> IF IsNull(x.DEPT_NAME) THEN d ELSE x.DEPT_NAME] :
                  x \in DeptRowsOf(d)}
      : d \in {e.DEPARTMENT : e \in PairRows(sid, term)}}

\* The offers that can be ranked first: most credit hours, then the display
\* name that sorts first (nulls last in both).
TopOffers(sid, term) ==
    {o \in Offers(sid, term) :
       ~\E q \in Offers(sid, term) :
           \/ ~IsNull(q.credits) /\ IsNull(o.credits)
           \/ ~IsNull(q.credits) /\ ~IsNull(o.credits)
                /\ q.credits[1] > o.credits[1]
           \/ o.credits = q.credits /\ StrBefore(q.shown, o.shown)}

\* The student-terms of the enrollments with a student and a term.
StudentTerms ==
    {k \in {<<e.EMPLID, e.STRM>> : e \in Rows(enrollments)} :
        ~IsNull(k[1]) /\ ~IsNull(k[2])}

C24_ValidTablesEnforce ==
    (pc \in {"aggregate", "done"} /\ IssueKeys(Tables) = {}) => success

\* The rows of table B that row a may come from: a itself, or a row that
\* the credit repair turns into a.
Origins(B, tbl, a) ==
    {r \in Rows(B) :
        \/ r = a
        \/ /\ tbl = "enrollments"
           /\ [r EXCEPT !.CREDIT_HOURS = ClaimedCredit(r.CREDIT_HOURS)] = a}

\* Table by table, every row of U comes from a row of T, and occurs in U no
\* more often than the rows of T it may come from.
NoRowAdded(T, U) ==
    \A tbl \in {"student", "departments", "acad_prog", "enrollments"} :
       \A a \in Rows(U[tbl]) :
          /\ Origins(T[tbl], tbl, a) # {}
          /\ U[tbl][a] <= SumFn([r \in Origins(T[tbl], tbl, a) |-> T[tbl][r]])

\* C25: a cleaning pass adds no row: every row of a table after it was in
\* the table before it (up to the clamped credit hours) and occurs no more
\* often than before; the same holds right after the three orphan repairs,
\* whose joins leave every academic-program and enrollment row at most as
\* often as it was.
C25_CleanAddsNoRows ==
    pc = "clean" =>
       /\ \A U \in Clean(Tables, issues) : NoRowAdded(Tables, U)
       /\ \A U \in RepairFrom(SubSeq(CleanOrder, 1, 7), 1, Tables, issues) :
             /\ NoRowAdded(Tables, U)
             /\ NumRows(U.acad_prog) <= NumRows(acad_prog)
             /\ NumRows(U.enrollments) <= NumRows(enrollments)

\* The cleaning pass is called with a student row that occurs twice, an
\* enrollment of that student, and an enrollment of no student: the student
\* orphan repair joins the enrollments against the students.
C25_Witness ==
    /\ pc = "clean"
    /\ "duplicate_students" \in issues
    /\ "orphaned_enrollments_student" \in issues
    /\ \E s \in Rows(student) :
          /\ student[s] = 2
          /\ \E e \in Rows(enrollments) : SqlEq(e.EMPLID, s.EMPLID)

\* Every declared primary key and foreign key holds in the four tables.
KeysHold ==
    \A i \in 1..Len(EnforceOrder) : InsertOk(Tables, EnforceOrder[i])

\* C26: a failed enforcement does not affect later runs on the same
\* workspace: a run starts its validation with none of student_new,
\* departments_new, acad_prog_new and enrollments_new in the database, and
\* when every declared key holds in its tables, its enforcement succeeds and
\* leaves none of them.
C26_LaterRunUnaffected ==
    /\ pc = "validate" => newTables = {}
    /\ (pc \in {"aggregate", "done"} /\ KeysHold)
          => (success /\ newTables = {})

====
